---- MODULE Spec2Model ----
(***************************************************************************)
(* Model of the authentication delegate of almight-js                      *)
(* (packages/auth/src/delegate.ts) over the web key/value stores           *)
(* (BaseWebStorage, WebLocalStorage, WebSessionStorage, WebWindowStore).   *)
(*                                                                         *)
(* Every async method is cut at its awaits.  A method call runs its        *)
(* synchronous prefix inside the calling action and leaves its             *)
(* continuation at the tail of the microtask queue mq; RunMicrotask-style  *)
(* step actions pop the head of mq, run it up to its next await and        *)
(* append what is left.  This is the FIFO job queue of ECMAScript: an      *)
(* await of an already settled promise costs one turn of the queue.        *)
(*                                                                         *)
(* JavaScript values are flat sequences of strings, so that any two of     *)
(* them can be compared.                                                   *)
(***************************************************************************)
EXTENDS Naturals, Sequences, FiniteSets, TLC

VARIABLES
    options,           \* what the delegate's constructor was given
    delegateClass,     \* the class of the delegate: which getConfigurationData
    variant,           \* which store class the delegate was given
    storageDefined,    \* the store's own `storage` field is set (connected)
    backend,           \* localStorage / sessionStorage / the window object
    _state,            \* AuthenticationDelegate._state, in insertion order
    identityResolver,  \* AuthenticationDelegate.identityResolver
    resolverDelegate,  \* identityResolver.delegate === this
    respondStrategy,   \* AuthenticationDelegate.respondStrategy
    respondFrame,      \* AuthenticationDelegate.respondFrame
    mq,                \* the microtask queue: continuations of async calls
    net,               \* calls waiting for an HTTP response
    calls,             \* number of delegate methods called so far
    posts,             \* POST /token requests issued so far (history)
    frameCloses,       \* calls of respondFrame.close() so far (history)
    supplied,          \* per key, the value last passed to init (history)
    done,              \* completed calls, in completion order (history)
    held,              \* keys set on the store and not removed since (history)
    adapterClass,      \* BaseChainAdapter or EthereumChainAdapter
    adapterState,      \* whether the adapter's constructor has returned
    _channel,          \* BaseChainAdapter._channel
    channels,          \* per channel: its class, providerPath, isConnected
    channelLog,        \* the calls made into channels, in order (history)
    pending,           \* adapter calls waiting for their channel
    adapterDone,       \* completed adapter calls (history)
    prefixedStores     \* two store instances with prefixes over one backend

vars == <<options, delegateClass, variant, storageDefined, backend, _state,
          identityResolver, resolverDelegate, respondStrategy, respondFrame, mq,
          net, calls, posts, frameCloses, supplied, done, held, adapterClass,
          adapterState, _channel, channels, channelLog, pending, adapterDone,
          prefixedStores>>

store == <<options, delegateClass, variant, storageDefined>>
connector == <<adapterClass, adapterState, _channel, channels, channelLog, pending,
               adapterDone>>
bindings == <<identityResolver, resolverDelegate, respondStrategy, respondFrame>>

----------------------------------------------------------------------------
(* Bounds of the model.                                                    *)

MaxCalls == 2
MaxInitCalls == 4
MaxAdapterCalls == 3
MaxStoreOps == 4
MaxReadCalls == 2
MaxPrefixOps == 3

----------------------------------------------------------------------------
(* JavaScript values.                                                      *)

Undefined == <<"u">>
Null == <<"n">>
Str(s) == <<"s", s>>
\* the delegate's _state object, passed by reference
StateRef == <<"r">>
\* no entry under a key of the backend
Missing == <<>>

NoBinding == "undefined"

RECURSIVE Flatten(_)
Flatten(st) ==
    IF st = <<>> THEN <<>> ELSE <<st[1][1], st[1][2]>> \o Flatten(Tail(st))

\* the value of an object {k1: v1, ...} with string values
ObjValue(st) == <<"o">> \o Flatten(st)

\* what a reference to _state denotes at the moment it is read
Deref(v, st) == IF v = StateRef THEN ObjValue(st) ELSE v

----------------------------------------------------------------------------
(* types.ts                                                                *)

AllowedQueryParams ==
    << "project_identifier", "chainId", "public_key", "provider", "state",
       "verifiers", "code_challenge", "error", "error_code",
       "connector_type", "token", "respond_strategy", "origin_identifier",
       "target_origin", "code", "cause_event", "message_sign_required" >>

AllowedQueryParamSet == {AllowedQueryParams[i] : i \in DOMAIN AllowedQueryParams}

frozenStateKey == "frozen_auth_delegate"
pingKey == "__ping__"
pingValue == "__test__ping__"

StoreKeys == AllowedQueryParamSet \cup {frozenStateKey, pingKey, "walletconnect"}

NoExcludedStates == {}

verificationExcludedStates == {"code", "error", "error_code"}

\* IDENTITY_RESOLVERS: the providers that have a resolver
Providers == {"ethereum"}
\* the strategies for which a communicator has been registered
RegisteredStrategies == {"web"}

identityResolverMap(p) == IF p \in Providers THEN p ELSE NoBinding
respondStrategyMap(s) == IF s \in RegisteredStrategies THEN s ELSE NoBinding

----------------------------------------------------------------------------
(* The stores.                                                             *)

Variants == {"local", "session", "window"}

\* JSON.stringify(undefined) is undefined; anything else becomes a string
JSONstringify(v) == IF v = Undefined THEN Undefined ELSE <<"j">> \o v
JSONparse(raw) == Tail(raw)

serialize(vt, v) == IF vt = "window" THEN v ELSE JSONstringify(v)
deserialize(vt, raw) == IF vt = "window" THEN raw ELSE JSONparse(raw)

\* the backend's own read: localStorage.getItem gives null, a property
\* read of a plain object gives undefined
NaiveGet(vt, be, key) ==
    IF be[key] = Missing
    THEN (IF vt = "window" THEN Undefined ELSE Null)
    ELSE be[key]

\* an object is stringified when it is written, a string is copied
setItem(vt, be, st, key, v) ==
    [be EXCEPT ![key] = serialize(vt, IF vt = "window" THEN v ELSE Deref(v, st))]

getItem(vt, be, key) ==
    LET value == NaiveGet(vt, be, key)
    IN IF vt = "window"
       THEN deserialize(vt, value)
       ELSE IF value = Null \/ value = Undefined THEN Null
            ELSE deserialize(vt, value)

hasKey(vt, be, key) == getItem(vt, be, key) # Null

removeItem(be, key) == [be EXCEPT ![key] = Missing]

EmptyBackend == [k \in StoreKeys |-> Missing]

NoOptions == "undefined"

\* the constructor sets this.storage only inside `if (options !== undefined)`
ConstructorStorage(opts) ==
    IF opts = NoOptions THEN NoBinding ELSE "storage"

----------------------------------------------------------------------------
(* Tasks: the continuation of one async call.                              *)

\* be0, st0, bind0 and sd0 are the store, _state, the bindings and the
\* store's connection as the call found them, alone tells that no other call was under way at any turn of this one,
\* log lists the steps the call has taken (all three are history)
Task(op, pc, call) ==
    [op |-> op, pc |-> pc, call |-> call, data |-> <<>>, live |-> FALSE,
     i |-> 0, ok |-> FALSE, rd |-> Undefined,
     be0 |-> backend, st0 |-> _state, bind0 |-> bindings,
     sd0 |-> storageDefined, alone |-> (mq = <<>> /\ net = {}), log |-> <<>>]

\* isConnected() up to its first await: the window store answers at once,
\* the others write the sentinel key when their storage is defined
IsConnectedPc(vt, sd) ==
    IF vt = "window" \/ ~sd THEN "go" ELSE "ic_get"
IsConnectedOk(vt, sd) == (vt = "window") /\ sd
IsConnectedBackend(vt, sd, be, st) ==
    IF vt = "window" \/ ~sd THEN be
    ELSE setItem(vt, be, st, pingKey, Str(pingValue))

StartWithIsConnected(t, vt, sd) ==
    [t EXCEPT !.pc = IsConnectedPc(vt, sd), !.ok = IsConnectedOk(vt, sd)]

\* the record of a completed call: how it ended, and the store and the
\* delegate as they were at that moment
Finished(t, outcome, res, be, st, bind) ==
    [op |-> t.op, call |-> t.call, arg |-> t.data, outcome |-> outcome, res |-> res,
     be |-> be, st |-> st, bind |-> bind,
     be0 |-> t.be0, st0 |-> t.st0, bind0 |-> t.bind0, sd0 |-> t.sd0,
     alone |-> t.alone, log |-> t.log, rd |-> t.rd]

----------------------------------------------------------------------------
(* AuthenticationDelegate.init                                             *)

Overwrite(st, key, value) == << <<key, value>> >>

\* _state[key] = value keeps the place of a key that is already there
Put(st, key, value) ==
    IF \E j \in DOMAIN st : st[j][1] = key
    THEN [j \in DOMAIN st |-> IF st[j][1] = key THEN <<key, value>> ELSE st[j]]
    ELSE Append(st, <<key, value>>)

StateKeys(st) == {st[j][1] : j \in DOMAIN st}
StateGet(st, key) == LET j == CHOOSE j \in DOMAIN st : st[j][1] = key IN st[j][2]

BindResolver(ir, value) == IF ir = NoBinding THEN identityResolverMap(value) ELSE ir
BindStrategy(rs, value) == IF rs = NoBinding THEN value ELSE rs
KeepFrame(rf, rs) == rf
BindFrame(rf, rs) == IF rf = NoBinding THEN respondStrategyMap(rs) ELSE rf

\* the un-awaited this.setStates(this._state) of one loop iteration
SpawnSetStates(acc, call) ==
    [acc EXCEPT
        !.backend = IsConnectedBackend(acc.variant, acc.storageDefined, @, acc._state),
        !.mq = Append(@, [StartWithIsConnected(Task("setStates", "", call),
                                               acc.variant, acc.storageDefined)
                          EXCEPT !.live = TRUE])]

\* the default branch: this.storage.setItem(key, value), not awaited; on a
\* store without storage the rejected promise is dropped
DirectSetItem(acc, key, value) ==
    IF acc.storageDefined
    THEN [acc EXCEPT !.backend = setItem(acc.variant, @, acc._state, key, Str(value))]
    ELSE acc

InitRoute(acc, key, value) ==
    CASE key = "provider" ->
            LET ir == BindResolver(acc.identityResolver, value)
            IN [acc EXCEPT !.identityResolver = ir,
                           !.resolverDelegate = IF ir # NoBinding THEN TRUE ELSE @]
      [] key = "respond_strategy" ->
            LET rs == BindStrategy(acc.respondStrategy, value)
            IN [acc EXCEPT !.respondStrategy = rs,
                           !.respondFrame = BindFrame(@, rs)]
      [] OTHER -> DirectSetItem(acc, key, value)

InitRecord(acc, key, value) == [acc EXCEPT !._state = Put(@, key, value)]

RECURSIVE InitLoop(_, _, _, _)
InitLoop(args, n, acc, call) ==
    IF n > Len(args) THEN acc
    ELSE LET key == args[n][1]
             value == args[n][2]
         IN InitLoop(args, n + 1,
                     SpawnSetStates(InitRecord(InitRoute(acc, key, value), key, value), call),
                     call)

Delegate ==
    [variant |-> variant, storageDefined |-> storageDefined, backend |-> backend,
     _state |-> _state, identityResolver |-> identityResolver,
     resolverDelegate |-> resolverDelegate, respondStrategy |-> respondStrategy,
     respondFrame |-> respondFrame, mq |-> mq]

\* the arguments init is called with in the model
InitArgsPool ==
    { << <<"provider", "ethereum">>, <<"respond_strategy", "web">> >>,
      << <<"state", "abc">> >>,
      << <<"state", "def">>, <<"project_identifier", "p1">> >>,
      << <<"respond_strategy", "none">>, <<"provider", "unknown">> >>,
      << <<"chainId", "1">>, <<"public_key", "0xa">>, <<"state", "abc">>,
         <<"token", "t1">>, <<"provider", "ethereum">> >> }

RECURSIVE Supply(_, _)
Supply(sup, args) ==
    IF args = <<>> THEN sup
    ELSE Supply([sup EXCEPT ![args[1][1]] = Str(args[1][2])], Tail(args))

init(args) ==
    /\ LET acc == InitLoop(args, 1, Delegate, calls + 1)
       IN /\ backend' = acc.backend
          /\ _state' = acc._state
          /\ identityResolver' = acc.identityResolver
          /\ resolverDelegate' = acc.resolverDelegate
          /\ respondStrategy' = acc.respondStrategy
          /\ respondFrame' = acc.respondFrame
          /\ mq' = acc.mq
    /\ calls' = calls + 1
    /\ supplied' = Supply(supplied, args)
    /\ done' = Append(done, Finished([Task("init", "", calls + 1) EXCEPT !.data = args],
                                      "returned", "void", backend', _state', bindings'))
    /\ UNCHANGED <<connector, prefixedStores, held, store, net, posts, frameCloses>>

----------------------------------------------------------------------------
(* BaseWebStorage.isConnected, after its first await                       *)

\* the continuation that runs next
Head0 == [Head(mq) EXCEPT !.alone = @ /\ Len(mq) = 1]
Rest == Tail(mq)

isConnected_step ==
    /\ mq # <<>>
    /\ Head0.pc \in {"ic_get", "ic_rm", "ic_ret"}
    /\ CASE Head0.pc = "ic_get" ->
              \* const connected = (await this.getItem(pingKey)) === pingValue
              /\ mq' = Append(Rest, [Head0 EXCEPT !.pc = "ic_rm",
                                        !.rd = getItem(variant, backend, pingKey)])
              /\ UNCHANGED backend
         [] Head0.pc = "ic_rm" ->
              \* await this.removeItem(pingKey)
              /\ mq' = Append(Rest, [Head0 EXCEPT !.pc = "ic_ret",
                                        !.ok = (Head0.rd = Str(pingValue))])
              /\ backend' = removeItem(backend, pingKey)
         [] Head0.pc = "ic_ret" ->
              \* return connected
              /\ mq' = Append(Rest, [Head0 EXCEPT !.pc = "go"])
              /\ UNCHANGED backend
    /\ UNCHANGED <<connector, prefixedStores, held, store, _state, bindings, net, calls, posts, frameCloses,
                   supplied, done>>

----------------------------------------------------------------------------
(* AuthenticationDelegate.setStates and freeze                             *)

\* Object.entries(data), taken when setStates resumes after isConnected
Entries(t, st) ==
    IF t.live THEN [j \in DOMAIN st |-> <<st[j][1], Str(st[j][2])>>] ELSE t.data

\* what becomes of a setStates call whose loop has ended
AfterSetStates(t) ==
    IF t.op = "freeze" THEN <<[t EXCEPT !.pc = "fz_resume"]>> ELSE <<>>

setStates_step ==
    /\ mq # <<>>
    /\ Head0.op \in {"setStates", "freeze"}
    /\ Head0.pc \in {"go", "write"}
    /\ LET entries == IF Head0.pc = "go" THEN Entries(Head0, _state) ELSE Head0.data
           n == Head0.i + 1
       IN IF (Head0.pc = "go" /\ ~Head0.ok) \/ n > Len(entries)
          THEN /\ mq' = Rest \o AfterSetStates(Head0)
               /\ UNCHANGED backend
          ELSE /\ backend' = setItem(variant, backend, _state, entries[n][1], entries[n][2])
               /\ mq' = Append(Rest, [Head0 EXCEPT !.pc = "write", !.data = entries,
                                                   !.live = FALSE, !.i = n])
    /\ UNCHANGED <<connector, prefixedStores, held, store, _state, bindings, net, calls, posts, frameCloses,
                   supplied, done>>

\* await this.setStates({ [this.frozenStateKey]: this._state })
freeze ==
    /\ calls' = calls + 1
    /\ backend' = IsConnectedBackend(variant, storageDefined, backend, _state)
    /\ mq' = Append(mq, [StartWithIsConnected(Task("freeze", "", calls + 1),
                                              variant, storageDefined)
                         EXCEPT !.data = << <<frozenStateKey, StateRef>> >>])
    /\ UNCHANGED <<connector, prefixedStores, held, store, _state, bindings, net, posts, frameCloses, supplied, done>>

\* freeze resumes after its await and returns; one turn later the caller
\* that awaited freeze() resumes
freeze_step ==
    /\ mq # <<>>
    /\ Head0.op = "freeze"
    /\ Head0.pc \in {"fz_resume", "fz_caller"}
    /\ IF Head0.pc = "fz_resume"
       THEN /\ mq' = Append(Rest, [Head0 EXCEPT !.pc = "fz_caller"])
            /\ UNCHANGED done
       ELSE /\ mq' = Rest
            /\ done' = Append(done, Finished(Head0, "resolved", "void",
                                             backend, _state, bindings))
    /\ UNCHANGED <<connector, prefixedStores, held, store, backend, _state, bindings, net, calls, posts,
                   frameCloses, supplied>>

----------------------------------------------------------------------------
(* AuthenticationDelegate.verifyStates                                     *)

\* the first entry from n on whose key is not excluded, or 0: an excluded
\* key ends its loop iteration without an await
NextVerified(entries, n) ==
    IF \E j \in n..Len(entries) : entries[j][1] \notin verificationExcludedStates
    THEN CHOOSE j \in n..Len(entries) :
            /\ entries[j][1] \notin verificationExcludedStates
            /\ \A l \in n..(j - 1) : entries[l][1] \in verificationExcludedStates
    ELSE 0

\* JSON.stringify(await this.storage.getItem(key)) !== JSON.stringify(value)
ValueDiffers(rd, st, value) == JSONstringify(Deref(rd, st)) # JSONstringify(value)

\* the result of a verifyStates call that runs from its start to its return
\* with no other call in between: isConnected() then gives storageDefined
RECURSIVE VerifyLoop(_, _, _, _, _)
VerifyLoop(vt, be, st, entries, n) ==
    LET j == NextVerified(entries, n)
    IN IF j = 0 THEN "true"
       ELSE IF \/ ~hasKey(vt, be, entries[j][1])
               \/ ValueDiffers(getItem(vt, be, entries[j][1]), st, entries[j][2])
            THEN "false"
            ELSE VerifyLoop(vt, be, st, entries, j + 1)

VerifyOutcome(vt, sd, be, st, entries) ==
    IF sd THEN VerifyLoop(vt, be, st, entries, 1) ELSE "false"

StrEntries(args) == [j \in DOMAIN args |-> <<args[j][1], Str(args[j][2])>>]

\* the states verifyStates is called with in the model
VerifyArgsPool ==
    { <<>>,
      << <<"state", "abc">>, <<"code", "xyz">> >>,
      << <<"error", "denied">> >>,
      << <<"provider", "ethereum">>, <<"state", "abc">> >> }

\* on a delegate built without options this.storage is undefined, and
\* this.storage.isConnected() is a TypeError inside the async function
verifyStates(states) ==
    /\ calls' = calls + 1
    /\ IF ConstructorStorage(options) = NoBinding
       THEN /\ done' = Append(done,
                   Finished([Task("verifyStates", "", calls + 1)
                                EXCEPT !.data = StrEntries(states)],
                            "rejected", "TypeError", backend, _state, bindings))
            /\ UNCHANGED <<backend, mq>>
       ELSE /\ backend' = IsConnectedBackend(variant, storageDefined, backend, _state)
            /\ mq' = Append(mq, [StartWithIsConnected(Task("verifyStates", "", calls + 1),
                                                      variant, storageDefined)
                                 EXCEPT !.data = StrEntries(states)])
            /\ UNCHANGED done
    /\ UNCHANGED <<connector, prefixedStores, held, store, _state, bindings, net, posts, frameCloses, supplied>>

VerifyReturn(t, res) ==
    /\ mq' = Rest
    /\ done' = Append(done, Finished(t, "resolved", res, backend, _state, bindings))

\* the loop from entry n on: return true at its end, else start hasKey(key)
VerifyFrom(t, n) ==
    LET j == NextVerified(t.data, n)
    IN IF j = 0
       THEN VerifyReturn(t, "true")
       ELSE /\ mq' = Append(Rest, [t EXCEPT !.pc = "vs_has", !.i = j,
                                            !.rd = getItem(variant, backend, t.data[j][1])])
            /\ UNCHANGED done

verifyStates_step ==
    /\ mq # <<>>
    /\ Head0.op = "verifyStates"
    /\ Head0.pc \in {"go", "vs_has", "vs_has_ret", "vs_get"}
    /\ CASE Head0.pc = "go" ->
              IF Head0.ok THEN VerifyFrom(Head0, 1) ELSE VerifyReturn(Head0, "false")
         [] Head0.pc = "vs_has" ->
              \* hasKey: return (await this.getItem(key)) !== null
              /\ mq' = Append(Rest, [Head0 EXCEPT !.pc = "vs_has_ret",
                                                  !.ok = (Head0.rd # Null)])
              /\ UNCHANGED done
         [] Head0.pc = "vs_has_ret" ->
              IF ~Head0.ok THEN VerifyReturn(Head0, "false")
              ELSE /\ mq' = Append(Rest, [Head0 EXCEPT !.pc = "vs_get",
                                !.rd = getItem(variant, backend, Head0.data[Head0.i][1])])
                   /\ UNCHANGED done
         [] Head0.pc = "vs_get" ->
              IF ValueDiffers(Head0.rd, _state, Head0.data[Head0.i][2])
              THEN VerifyReturn(Head0, "false")
              ELSE VerifyFrom(Head0, Head0.i + 1)
    /\ UNCHANGED <<connector, prefixedStores, held, store, backend, _state, bindings, net, calls, posts,
                   frameCloses, supplied>>

----------------------------------------------------------------------------
(* AuthenticationDelegate.clean and close                                  *)

close ==
    /\ calls' = calls + 1
    /\ backend' = IsConnectedBackend(variant, storageDefined, backend, _state)
    /\ mq' = Append(mq, StartWithIsConnected(Task("close", "", calls + 1),
                                             variant, storageDefined))
    /\ UNCHANGED <<connector, prefixedStores, held, store, _state, bindings, net, posts, frameCloses, supplied, done>>

\* clean(): one removeItem per turn; when the loop ends clean returns
clean_step ==
    /\ mq # <<>>
    /\ Head0.op = "close"
    /\ Head0.pc \in {"go", "cl_rm"}
    /\ IF (Head0.pc = "go" /\ ~Head0.ok) \/ Head0.i >= Len(AllowedQueryParams)
       THEN /\ mq' = Append(Rest, [Head0 EXCEPT !.pc = "cs_start"])
            /\ UNCHANGED backend
       ELSE /\ backend' = removeItem(backend, AllowedQueryParams[Head0.i + 1])
            /\ mq' = Append(Rest, [Head0 EXCEPT !.pc = "cl_rm", !.i = Head0.i + 1])
    /\ UNCHANGED <<connector, prefixedStores, held, store, _state, bindings, net, calls, posts, frameCloses,
                   supplied, done>>

CloseEnds(t, outcome, res) ==
    /\ mq' = Rest
    /\ done' = Append(done, Finished(t, outcome, res, backend, _state, bindings))

\* if (this.respondFrame !== undefined) await this.respondFrame.close()
CloseFrame(t) ==
    IF respondFrame # NoBinding
    THEN /\ frameCloses' = frameCloses + 1
         /\ mq' = Append(Rest, [t EXCEPT !.pc = "cs_end"])
         /\ UNCHANGED done
    ELSE /\ CloseEnds(t, "resolved", "void")
         /\ UNCHANGED frameCloses

close_step ==
    /\ mq # <<>>
    /\ Head0.op = "close"
    /\ Head0.pc \in {"cs_start", "cs_has", "cs_has_ret", "cs_frame", "cs_end"}
    /\ CASE Head0.pc = "cs_start" ->
              \* await this.storage.hasKey("walletconnect"): a store without
              \* storage throws on the read
              /\ IF storageDefined
                 THEN /\ mq' = Append(Rest, [Head0 EXCEPT !.pc = "cs_has",
                                   !.rd = getItem(variant, backend, "walletconnect")])
                      /\ UNCHANGED done
                 ELSE CloseEnds(Head0, "rejected", "TypeError")
              /\ UNCHANGED <<backend, frameCloses>>
         [] Head0.pc = "cs_has" ->
              /\ mq' = Append(Rest, [Head0 EXCEPT !.pc = "cs_has_ret",
                                                  !.ok = (Head0.rd # Null)])
              /\ UNCHANGED <<backend, frameCloses, done>>
         [] Head0.pc = "cs_has_ret" ->
              IF Head0.ok
              THEN /\ backend' = removeItem(backend, "walletconnect")
                   /\ mq' = Append(Rest, [Head0 EXCEPT !.pc = "cs_frame"])
                   /\ UNCHANGED <<frameCloses, done>>
              ELSE /\ UNCHANGED backend
                   /\ CloseFrame(Head0)
         [] Head0.pc = "cs_frame" ->
              /\ UNCHANGED backend
              /\ CloseFrame(Head0)
         [] Head0.pc = "cs_end" ->
              /\ UNCHANGED <<backend, frameCloses>>
              /\ CloseEnds(Head0, "resolved", "void")
    /\ UNCHANGED <<connector, prefixedStores, held, store, _state, bindings, net, calls, posts, supplied>>

----------------------------------------------------------------------------
(* AuthenticationDelegate.handleUserRegistration and registerUser          *)

handleUserRegistration ==
    /\ calls' = calls + 1
    /\ IF storageDefined
       THEN /\ mq' = Append(mq, [Task("handleUserRegistration", "hr_has", calls + 1)
                                 EXCEPT !.rd = getItem(variant, backend, "project_identifier")])
            /\ UNCHANGED done
       ELSE /\ done' = Append(done, Finished(Task("handleUserRegistration", "", calls + 1),
                                  "rejected", "TypeError", backend, _state, bindings))
            /\ UNCHANGED mq
    /\ UNCHANGED <<connector, prefixedStores, held, store, backend, _state, bindings, net, posts, frameCloses, supplied>>

handleUserRegistration_step ==
    /\ mq # <<>>
    /\ Head0.op = "handleUserRegistration"
    /\ CASE Head0.pc = "hr_has" ->
              /\ mq' = Append(Rest, [Head0 EXCEPT !.pc = "hr_has_ret",
                                                  !.ok = (Head0.rd # Null)])
              /\ UNCHANGED <<net, posts, done>>
         [] Head0.pc = "hr_has_ret" ->
              \* throw new Error("Project Identifier is not provided"), or
              \* await this.identityResolver?.getUserRegistrationArguments()
              /\ IF ~Head0.ok
                 THEN /\ mq' = Rest
                      /\ done' = Append(done, Finished(Head0,
                                  "rejected", "Project Identifier is not provided",
                                  backend, _state, bindings))
                 ELSE /\ mq' = Append(Rest, [Head0 EXCEPT !.pc = "hr_args"])
                      /\ UNCHANGED done
              /\ UNCHANGED <<net, posts>>
         [] Head0.pc = "hr_args" ->
              /\ mq' = Append(Rest, [Head0 EXCEPT !.pc = "hr_pid",
                            !.rd = getItem(variant, backend, "project_identifier")])
              /\ UNCHANGED <<net, posts, done>>
         [] Head0.pc = "hr_pid" ->
              /\ mq' = Append(Rest, [Head0 EXCEPT !.pc = "hr_tok",
                            !.data = << <<"project_identifier", Head0.rd>> >>,
                            !.rd = getItem(variant, backend, "token")])
              /\ UNCHANGED <<net, posts, done>>
         [] Head0.pc = "hr_tok" ->
              \* registerUser: authAxiosInstance.post("/token", data, {headers})
              /\ mq' = Rest
              /\ net' = net \cup {[Head0 EXCEPT !.pc = "hr_post"]}
              /\ posts' = posts + 1
              /\ UNCHANGED done
    /\ UNCHANGED <<connector, prefixedStores, held, store, backend, _state, bindings, calls, frameCloses, supplied>>

\* the backend answers POST /token, or the request fails; a response is
\* delivered as a task of its own, when no microtask is left
registerUser_response ==
    /\ mq = <<>>
    /\ \E t \in net :
         /\ t.pc = "hr_post"
         /\ net' = net \ {t}
         /\ \E res \in {"tokens", "NetworkError"} :
              done' = Append(done, Finished(t,
                                  IF res = "tokens" THEN "resolved" ELSE "rejected",
                                  res, backend, _state, bindings))
    /\ UNCHANGED <<connector, prefixedStores, held, store, backend, _state, bindings, mq, calls, posts,
                   frameCloses, supplied>>

----------------------------------------------------------------------------
(* AuthenticationDelegate.getState, fromFrozenState and the constructor    *)

\* getState: this.storage.isConnected() on a delegate without storage is a
\* TypeError; a store that is not connected gives StorageIsNotConnected
getStateOutcome(storage, connected) ==
    IF storage = NoBinding THEN "TypeError"
    ELSE IF ~connected THEN "StorageIsNotConnected"
    ELSE "value"

\* the keys getState is called with in the model
GetStateKeys == {"state", "provider", frozenStateKey}

\* getState(key) up to its first await
getState(key) ==
    /\ calls' = calls + 1
    /\ IF ConstructorStorage(options) = NoBinding
       THEN /\ done' = Append(done,
                   Finished([Task("getState", "", calls + 1) EXCEPT !.data = key],
                            "rejected", getStateOutcome(NoBinding, storageDefined),
                            backend, _state, bindings))
            /\ UNCHANGED <<backend, mq>>
       ELSE /\ backend' = IsConnectedBackend(variant, storageDefined, backend, _state)
            /\ mq' = Append(mq, [StartWithIsConnected(Task("getState", "", calls + 1),
                                                      variant, storageDefined)
                                 EXCEPT !.data = key])
            /\ UNCHANGED done
    /\ UNCHANGED <<connector, prefixedStores, held, store, _state, bindings, net, posts, frameCloses, supplied>>

\* getState after isConnected(): throw StorageIsNotConnected, or
\* return await this.storage.getItem(key)
getState_step ==
    /\ mq # <<>>
    /\ Head0.op = "getState"
    /\ Head0.pc \in {"go", "gs_get"}
    /\ CASE Head0.pc = "go" ->
              IF getStateOutcome("storage", Head0.ok) = "value"
              THEN /\ mq' = Append(Rest, [Head0 EXCEPT !.pc = "gs_get",
                                !.rd = getItem(variant, backend, Head0.data),
                                !.log = Append(@, "getItem")])
                   /\ UNCHANGED done
              ELSE /\ mq' = Rest
                   /\ done' = Append(done,
                          Finished(Head0, "rejected",
                                   getStateOutcome("storage", Head0.ok),
                                   backend, _state, bindings))
         [] Head0.pc = "gs_get" ->
              /\ mq' = Rest
              /\ done' = Append(done, Finished(Head0, "resolved", "value", backend,
                                               _state, bindings))
    /\ UNCHANGED <<connector, prefixedStores, held, store, backend, _state, bindings, net, calls, posts,
                   frameCloses, supplied>>

RECURSIVE Unflatten(_)
Unflatten(flat) ==
    IF Len(flat) < 2 THEN <<>>
    ELSE << <<flat[1], flat[2]>> >> \o Unflatten(Tail(Tail(flat)))

\* the entries of the object read back from the frozen-state key
FrozenEntries(v) == IF Len(v) > 0 /\ v[1] = "o" THEN Unflatten(Tail(v)) ELSE <<>>

FreshDelegate ==
    [variant |-> variant, storageDefined |-> storageDefined, backend |-> backend,
     _state |-> <<>>, identityResolver |-> NoBinding, resolverDelegate |-> FALSE,
     respondStrategy |-> NoBinding, respondFrame |-> NoBinding, mq |-> <<>>]

\* const delegate = new AuthenticationDelegate();
\* const states = await delegate.getState(delegate.frozenStateKey);
\* delegate.init(states); return delegate
fromFrozenState ==
    /\ calls' = calls + 1
    /\ LET storage == ConstructorStorage(NoOptions)
           outcome == getStateOutcome(storage, storageDefined)
           states == FrozenEntries(Deref(getItem(variant, backend, frozenStateKey), _state))
           d == InitLoop(states, 1, FreshDelegate, calls + 1)
       IN IF outcome # "value"
          THEN done' = Append(done, Finished(Task("fromFrozenState", "", calls + 1),
                                  "rejected", outcome, backend, <<>>,
                                  <<NoBinding, FALSE, NoBinding, NoBinding>>))
          ELSE done' = Append(done, Finished(Task("fromFrozenState", "", calls + 1),
                                  "resolved", "delegate", d.backend, d._state,
                                  <<d.identityResolver, d.resolverDelegate,
                                    d.respondStrategy, d.respondFrame>>))
    /\ UNCHANGED <<connector, prefixedStores, held, store, backend, _state, bindings, mq, net, posts, frameCloses,
                   supplied>>

----------------------------------------------------------------------------
(* AuthenticationDelegate.captureData, getConfigurationData, verifyProject *)

Classes ==
    {"AuthenticationDelegate", "Web2AuthenticationDelegate",
     "Web3AuthenticationDelegate"}

\* the query strings of the page in the model (globalThis.location.search)
QueryPool ==
    { << <<"project_identifier", "p1">>, <<"provider", "ethereum">>,
         <<"respond_strategy", "web">>, <<"state", "abc">> >>,
      << <<"provider", "ethereum">>, <<"state", "abc">> >>,
      << <<"project_identifier", "p2">> >> }

\* data[query] = _value: the string that was read from the store
RawOf(v) == IF Len(v) = 2 /\ v[1] = "s" THEN v[2] ELSE "object"

captureData(search) ==
    /\ calls' = calls + 1
    /\ LET t == Task("captureData", "", calls + 1)
       IN CASE delegateClass = "AuthenticationDelegate" ->
                 \* getConfigurationData: throw new Error("Method not implemneted")
                 /\ done' = Append(done, Finished(t, "rejected", "Method not implemneted",
                                                  backend, _state, bindings))
                 /\ UNCHANGED mq
            [] delegateClass = "Web2AuthenticationDelegate" ->
                 /\ mq' = Append(mq, [t EXCEPT !.pc = "cd_cfg", !.data = search,
                                               !.log = <<"configuration">>])
                 /\ UNCHANGED done
            [] delegateClass = "Web3AuthenticationDelegate" ->
                 IF storageDefined
                 THEN /\ mq' = Append(mq, [t EXCEPT !.pc = "gc_rd", !.i = 1,
                                !.rd = getItem(variant, backend, AllowedQueryParams[1])])
                      /\ UNCHANGED done
                 ELSE /\ done' = Append(done, Finished(t, "rejected", "TypeError",
                                                       backend, _state, bindings))
                      /\ UNCHANGED mq
    /\ UNCHANGED <<connector, prefixedStores, held, store, backend, _state, bindings, net, posts, frameCloses, supplied>>

\* Web3AuthenticationDelegate.getConfigurationData: one awaited getItem per
\* AllowedQueryParams value
getConfigurationData_step ==
    /\ mq # <<>>
    /\ Head0.op = "captureData"
    /\ Head0.pc = "gc_rd"
    /\ LET key == AllowedQueryParams[Head0.i]
           data == IF Head0.rd # Null /\ Head0.rd # Undefined
                   THEN Put(Head0.data, key, RawOf(Head0.rd))
                   ELSE Head0.data
       IN IF Head0.i < Len(AllowedQueryParams)
          THEN mq' = Append(Rest, [Head0 EXCEPT !.data = data, !.i = Head0.i + 1,
                        !.rd = getItem(variant, backend, AllowedQueryParams[Head0.i + 1])])
          ELSE mq' = Append(Rest, [Head0 EXCEPT !.data = data, !.pc = "cd_cfg",
                                                !.log = <<"configuration">>])
    /\ UNCHANGED <<connector, prefixedStores, held, store, backend, _state, bindings, net, calls, posts, frameCloses,
                   supplied, done>>

\* this.init(query); if a resolver is bound, identityResolver.delegate = this
\* and identityResolver.captureUri(query)
CaptureInit(t, be) ==
    LET acc == InitLoop(t.data, 1, [Delegate EXCEPT !.backend = be, !.mq = Rest], t.call)
        captured == acc.identityResolver # NoBinding
        log == IF captured THEN t.log \o <<"init", "captureUri">>
               ELSE Append(t.log, "init")
    IN /\ backend' = acc.backend
       /\ _state' = acc._state
       /\ identityResolver' = acc.identityResolver
       /\ resolverDelegate' = (captured \/ acc.resolverDelegate)
       /\ respondStrategy' = acc.respondStrategy
       /\ respondFrame' = acc.respondFrame
       /\ mq' = acc.mq
       /\ supplied' = Supply(supplied, t.data)
       /\ done' = Append(done, Finished([t EXCEPT !.log = log], "resolved",
                            IF captured THEN "captureUri" ELSE "void",
                            acc.backend, acc._state,
                            <<acc.identityResolver, captured \/ acc.resolverDelegate,
                              acc.respondStrategy, acc.respondFrame>>))

CaptureUnverified(t) ==
    /\ UNCHANGED net
    /\ CaptureInit(t, backend)

\* if (query[project_identifier] !== undefined) await this.verifyProject(..)
CaptureProject(t) ==
    IF "project_identifier" \in StateKeys(t.data)
    THEN /\ mq' = Rest
         /\ net' = net \cup {[t EXCEPT !.pc = "cd_verify",
                                       !.log = Append(@, "verifyProject")]}
         /\ UNCHANGED <<backend, _state, bindings, supplied, done>>
    ELSE /\ UNCHANGED net
         /\ CaptureInit(t, backend)

CaptureRejects(t, res) ==
    /\ mq' = Rest
    /\ done' = Append(done, Finished(t, "rejected", res, backend, _state, bindings))
    /\ UNCHANGED <<backend, _state, bindings, net, supplied>>

captureData_step ==
    /\ mq # <<>>
    /\ Head0.op = "captureData"
    /\ Head0.pc \in {"cd_cfg", "cd_has", "cd_has_ret", "cd_pid", "cd_verified"}
    /\ CASE Head0.pc = "cd_cfg" ->
              \* await this.storage.hasKey("walletconnect")
              IF storageDefined
              THEN /\ mq' = Append(Rest, [Head0 EXCEPT !.pc = "cd_has",
                                !.rd = getItem(variant, backend, "walletconnect")])
                   /\ UNCHANGED <<backend, _state, bindings, net, supplied, done>>
              ELSE CaptureRejects(Head0, "TypeError")
         [] Head0.pc = "cd_has" ->
              /\ mq' = Append(Rest, [Head0 EXCEPT !.pc = "cd_has_ret",
                                                  !.ok = (Head0.rd # Null)])
              /\ UNCHANGED <<backend, _state, bindings, net, supplied, done>>
         [] Head0.pc = "cd_has_ret" ->
              IF Head0.ok
              THEN /\ backend' = removeItem(backend, "walletconnect")
                   /\ mq' = Append(Rest, [Head0 EXCEPT !.pc = "cd_pid"])
                   /\ UNCHANGED <<_state, bindings, net, supplied, done>>
              ELSE CaptureProject(Head0)
         [] Head0.pc = "cd_pid" ->
              CaptureProject(Head0)
         [] Head0.pc = "cd_verified" ->
              \* is_verified: storage.setItem(project_identifier, ..), not
              \* awaited; otherwise errorRedirect, which throws
              IF Head0.ok /\ storageDefined
              THEN /\ UNCHANGED net
                   /\ CaptureInit([Head0 EXCEPT !.log = Append(@, "setItem")],
                                  setItem(variant, backend, _state, "project_identifier",
                                          Str(StateGet(Head0.data, "project_identifier"))))
              ELSE CaptureRejects([Head0 EXCEPT !.log = Append(@, "errorRedirect")],
                                  "Method to be implemented")
    /\ UNCHANGED <<connector, prefixedStores, held, store, calls, posts, frameCloses>>

\* GET /project/ident is answered with is_verified true or false, or fails;
\* the response is delivered when no microtask is left
verifyProject_response ==
    /\ mq = <<>>
    /\ \E t \in net :
         /\ t.pc = "cd_verify"
         /\ net' = net \ {t}
         /\ \E res \in {"verified", "unverified", "NetworkError"} :
              mq' = <<[t EXCEPT !.pc = "cd_verified", !.ok = (res = "verified"),
                                !.log = Append(@, res)]>>
    /\ UNCHANGED <<connector, prefixedStores, held, store, backend, _state, bindings, calls, posts, frameCloses,
                   supplied, done>>

----------------------------------------------------------------------------
(* BaseWebStorage.disconnect and connect, between the flows of a page      *)

disconnect ==
    /\ mq = <<>>
    /\ net = {}
    /\ storageDefined
    /\ storageDefined' = FALSE
    /\ backend' = EmptyBackend
    /\ held' = {}
    /\ calls' = calls + 1
    /\ UNCHANGED <<connector, prefixedStores, options, delegateClass, variant, _state, bindings, mq, net, posts,
                   frameCloses, supplied, done>>

connect ==
    /\ mq = <<>>
    /\ net = {}
    /\ ~storageDefined
    /\ storageDefined' = TRUE
    /\ calls' = calls + 1
    /\ UNCHANGED <<connector, prefixedStores, held, options, delegateClass, variant, backend, _state, bindings, mq, net,
                   posts, frameCloses, supplied, done>>

----------------------------------------------------------------------------
(* The identity resolver of a flow.  Its order of calls follows the flow   *)
(* states CONFIGURED -> VERIFYING -> REGISTERED -> closed.                 *)

Invoked(op) ==
    \/ \E j \in DOMAIN done : done[j].op = op
    \/ \E j \in DOMAIN mq : mq[j].op = op
    \/ \E t \in net : t.op = op

\* captureData has handed the query to identityResolver.captureUri
FlowCaptured ==
    \E j \in DOMAIN done : done[j].op = "captureData" /\ done[j].res = "captureUri"

FlowVerified ==
    \E j \in DOMAIN done : done[j].op = "verifyStates" /\ done[j].res = "true"

RegisterUnverified == TRUE

\* VERIFYING: "this must run before registration is attempted"
ResolverMayRegister == FlowVerified

resolverVerifies ==
    /\ FlowCaptured
    /\ ~Invoked("verifyStates")
    /\ \E states \in VerifyArgsPool : verifyStates(states)

resolverRegisters ==
    /\ FlowCaptured
    /\ ResolverMayRegister
    /\ ~Invoked("handleUserRegistration")
    /\ handleUserRegistration

\* terminal cleanup, on success and on abandonment
resolverCloses ==
    /\ FlowCaptured
    /\ \E j \in DOMAIN done :
          \/ done[j].op = "verifyStates" /\ done[j].res = "false"
          \/ done[j].op = "handleUserRegistration"
    /\ ~Invoked("close")
    /\ close

----------------------------------------------------------------------------
(* BaseChainAdapter and EthereumChainAdapter (connector/src/adapter.ts)    *)

delegateVars ==
    <<store, backend, _state, bindings, mq, net, posts, frameCloses, supplied,
      done, held, prefixedStores>>

ChannelIds == {"c1", "c2"}
ChannelKinds == {"BrowserProviderChannel", "BaseProviderChannel"}
AdapterClasses == {"BaseChainAdapter", "EthereumChainAdapter"}

\* public static providerPath
StaticProviderPath(cls) == IF cls = "EthereumChainAdapter" THEN "ethereum" ELSE "null"

AnyChannel(ch) == TRUE

\* checkChannel(): throws when this.channel === undefined
checkChannel(ch) == ch # NoBinding

\* bindChannelDelegations: a browser channel is given the adapter's path
BoundChannels(chs, ch, cls) ==
    IF ch # NoBinding /\ chs[ch].kind = "BrowserProviderChannel"
    THEN [chs EXCEPT ![ch].providerPath = StaticProviderPath(cls)]
    ELSE chs

AdapterFinished(call, method, ch, arg, outcome, res, from) ==
    [call |-> call, method |-> method, channel |-> ch, arg |-> arg,
     outcome |-> outcome, res |-> res, from |-> from]

DropTimeout(data, timeout) == <<data, "undefined">>

\* what is handed to the channel: the same data and timeout
Forwarded(data, timeout) == <<data, timeout>>

\* return await this.channel.request(..): the channel's settlement is the
\* adapter's settlement
Propagated(settlement) == settlement

\* new Adapter({channel: ch})
adapter_constructor(ch) ==
    /\ adapterState = "none"
    /\ calls' = calls + 1
    /\ _channel' = ch
    /\ IF checkChannel(ch)
       THEN /\ channels' = BoundChannels(channels, ch, adapterClass)
            /\ adapterState' = "ready"
            /\ adapterDone' = Append(adapterDone,
                   AdapterFinished(calls + 1, "constructor", ch, <<>>, "returned",
                                   "adapter", <<>>))
       ELSE /\ adapterDone' = Append(adapterDone,
                   AdapterFinished(calls + 1, "constructor", ch, <<>>, "thrown",
                                   "ChannelIsNotDefined", <<>>))
            /\ UNCHANGED <<channels, adapterState>>
    /\ UNCHANGED <<adapterClass, channelLog, pending, delegateVars>>

\* adapter.channel = ch
adapter_setChannel(ch) ==
    /\ adapterState = "ready"
    /\ calls' = calls + 1
    /\ _channel' = ch
    /\ UNCHANGED <<adapterClass, adapterState, channels, channelLog, pending,
                   adapterDone, delegateVars>>

adapter_bindChannelDelegations ==
    /\ adapterState = "ready"
    /\ calls' = calls + 1
    /\ channels' = BoundChannels(channels, _channel, adapterClass)
    /\ UNCHANGED <<adapterClass, adapterState, _channel, channelLog, pending,
                   adapterDone, delegateVars>>

\* one call into the channel, as the channel sees it
ChannelCall(call, method, arg) ==
    [call |-> call, channel |-> _channel, method |-> method, arg |-> arg,
     kind |-> channels[_channel].kind,
     providerPath |-> channels[_channel].providerPath]

\* an async method of the adapter: with checkChannel() first (checked) or
\* going straight to this.channel (checkConnection)
AdapterAsync(method, checked, arg, sent) ==
    /\ adapterState = "ready"
    /\ calls' = calls + 1
    /\ IF (checked /\ ~checkChannel(_channel)) \/ _channel = NoBinding
       THEN /\ adapterDone' = Append(adapterDone,
                   AdapterFinished(calls + 1, method, _channel, arg, "rejected",
                       IF checked /\ ~checkChannel(_channel)
                       THEN "ChannelIsNotDefined" ELSE "TypeError", <<>>))
            /\ UNCHANGED <<channelLog, pending>>
       ELSE /\ channelLog' = Append(channelLog, ChannelCall(calls + 1, method, sent))
            /\ pending' = pending \cup {[ChannelCall(calls + 1, method, sent)
                                          EXCEPT !.arg = arg]}
            /\ UNCHANGED adapterDone
    /\ UNCHANGED <<adapterClass, adapterState, _channel, channels, delegateVars>>

RequestData == {"eth_accounts", "eth_chainId"}
RequestTimeouts == {"undefined", "3000"}

adapter_request(data, timeout) ==
    AdapterAsync("request", TRUE, <<data, timeout>>, Forwarded(data, timeout))
adapter_connect == AdapterAsync("connect", TRUE, <<>>, <<>>)
adapter_checkSession == AdapterAsync("checkSession", TRUE, <<>>, <<>>)
adapter_checkConnection == AdapterAsync("checkConnection", FALSE, <<>>, <<>>)

\* on(event, callback) is not async: it throws to its caller
adapter_on ==
    /\ adapterState = "ready"
    /\ calls' = calls + 1
    /\ IF _channel = NoBinding
       THEN /\ adapterDone' = Append(adapterDone,
                   AdapterFinished(calls + 1, "on", _channel, <<>>, "thrown",
                                   "ChannelIsNotDefined", <<>>))
            /\ UNCHANGED channelLog
       ELSE /\ channelLog' = Append(channelLog, ChannelCall(calls + 1, "on", <<>>))
            /\ adapterDone' = Append(adapterDone,
                   AdapterFinished(calls + 1, "on", _channel, <<>>, "returned",
                                   "void", <<>>))
    /\ UNCHANGED <<adapterClass, adapterState, _channel, channels, pending,
                   delegateVars>>

AlwaysConnected(ch, chs) == "true"

\* return this._channel !== undefined && this._channel.isConnected
AdapterIsConnected(ch, chs) ==
    IF ch # NoBinding THEN chs[ch].isConnected ELSE "false"

adapter_isConnected ==
    /\ adapterState = "ready"
    /\ calls' = calls + 1
    /\ adapterDone' = Append(adapterDone,
           AdapterFinished(calls + 1, "isConnected", _channel, <<>>, "returned",
               AdapterIsConnected(_channel, channels),
               IF _channel # NoBinding THEN <<channels[_channel].isConnected>>
               ELSE <<>>))
    /\ UNCHANGED <<adapterClass, adapterState, _channel, channels, channelLog,
                   pending, delegateVars>>

\* how a channel may settle a call
ChannelSettlements(method) ==
    CASE method = "request" ->
            {<<"resolved", "0x1">>, <<"rejected", "RequestTimeout">>,
             <<"rejected", "ProviderRpcError">>}
      [] method = "connect" ->
            {<<"resolved", "undefined">>, <<"rejected", "UserRejected">>}
      [] method = "checkSession" ->
            {<<"resolved", "session">>, <<"rejected", "ProviderRpcError">>}
      [] OTHER ->
            {<<"resolved", "true">>, <<"resolved", "false">>}

\* the channel settles a call; the adapter's await resumes with it
channel_settles ==
    /\ \E p \in pending : \E settlement \in ChannelSettlements(p.method) :
         /\ pending' = pending \ {p}
         /\ adapterDone' = Append(adapterDone,
                AdapterFinished(p.call, p.method, p.channel, p.arg,
                    Propagated(settlement)[1],
                    IF p.method = "connect" /\ settlement[1] = "resolved"
                    THEN "undefined" ELSE Propagated(settlement)[2],
                    settlement))
         /\ channels' = IF p.method = "connect" /\ settlement[1] = "resolved"
                        THEN [channels EXCEPT ![p.channel].isConnected = "true"]
                        ELSE channels
    /\ UNCHANGED <<adapterClass, adapterState, _channel, channelLog, calls,
                   delegateVars>>

\* the wallet behind a channel goes away
channel_drops ==
    /\ \E ch \in ChannelIds :
         /\ channels[ch].isConnected = "true"
         /\ channels' = [channels EXCEPT ![ch].isConnected = "false"]
    /\ UNCHANGED <<adapterClass, adapterState, _channel, channelLog, pending,
                   adapterDone, calls, delegateVars>>

\* no adapter: the state of the connector in the flows of the delegate
NoAdapter ==
    /\ adapterClass = "BaseChainAdapter"
    /\ adapterState = "none"
    /\ _channel = NoBinding
    /\ channels = [ch \in ChannelIds |->
                      [kind |-> "BaseProviderChannel", providerPath |-> "undefined",
                       isConnected |-> "false"]]
    /\ channelLog = <<>>
    /\ pending = {}
    /\ adapterDone = <<>>

----------------------------------------------------------------------------
(* The store used on its own: setItem, removeItem and clear of a           *)
(* connected BaseWebStorage, WebLocalStorage, WebSessionStorage or         *)
(* WebWindowStore.                                                         *)

StoreOpKeys == {"state", "provider"}
StoreOpValues == {Str("abc"), Str("xyz"), Null}

\* clear(): localStorage.clear() empties the backend; the window store
\* assigns a new object to globalThis and leaves this.storage as it is
clear(vt, be) == IF vt = "window" THEN be ELSE EmptyBackend

storage_setItem(key, value) ==
    /\ storageDefined
    /\ backend' = setItem(variant, backend, _state, key, value)
    /\ held' = held \cup {key}
    /\ calls' = calls + 1
    /\ UNCHANGED <<connector, prefixedStores, store, _state, bindings, mq, net, posts, frameCloses,
                   supplied, done>>

storage_removeItem(key) ==
    /\ storageDefined
    /\ backend' = removeItem(backend, key)
    /\ held' = held \ {key}
    /\ calls' = calls + 1
    /\ UNCHANGED <<connector, prefixedStores, store, _state, bindings, mq, net, posts, frameCloses,
                   supplied, done>>

storage_clear ==
    /\ storageDefined
    /\ backend' = clear(variant, backend)
    /\ held' = {}
    /\ calls' = calls + 1
    /\ UNCHANGED <<connector, prefixedStores, store, _state, bindings, mq, net, posts, frameCloses,
                   supplied, done>>

----------------------------------------------------------------------------
(* Two store instances of one class, with the prefixes "a" and "b", over   *)
(* the same backend (localStorage, sessionStorage or the window object).   *)

Prefixes == {"a", "b"}
PrefixKeys == {"state", "provider"}

\* getPrefixedName: <<p, name>> stands for the string `${p}__${name}`
getPrefixedName(prefix, name) ==
    IF prefix = "undefined" THEN <<name>> ELSE <<prefix, name>>

\* the name an instance uses in its backend: BaseWebStorage prefixes it,
\* WebWindowStore uses this.storage[key]
BackendName(vt, prefix, key) ==
    IF vt = "window" THEN <<key>> ELSE getPrefixedName(prefix, key)

PrefixNames ==
    {<<p, k>> : p \in Prefixes, k \in PrefixKeys \cup {pingKey}}
        \cup {<<k>> : k \in PrefixKeys}

\* both instances connected, nothing stored; ic is the place of each
\* instance's isConnected(), written the keys it has set (history), last the
\* instance that acted last (history)
TwoStores ==
    [be |-> [n \in PrefixNames |-> Missing],
     defined |-> [p \in Prefixes |-> TRUE],
     ic |-> [p \in Prefixes |-> "idle"],
     written |-> [p \in Prefixes |-> {}],
     last |-> "undefined"]

PrefixedFrame ==
    /\ calls' = calls + 1
    /\ UNCHANGED <<connector, store, backend, _state, bindings, mq, net, posts,
                   frameCloses, supplied, done, held>>

prefixed_setItem(p, key, value) ==
    /\ prefixedStores.defined[p]
    /\ prefixedStores' =
          [prefixedStores EXCEPT
              !.be = setItem(variant, @, <<>>, BackendName(variant, p, key), value),
              !.written[p] = @ \cup {key},
              !.last = p]
    /\ PrefixedFrame

prefixed_removeItem(p, key) ==
    /\ prefixedStores.defined[p]
    /\ prefixedStores' =
          [prefixedStores EXCEPT
              !.be = removeItem(@, BackendName(variant, p, key)),
              !.last = p]
    /\ PrefixedFrame

\* this.storage.clear() empties the whole backend; the window store leaves
\* the object the instances hold as it is
PrefixedCleared(vt, be) ==
    IF vt = "window" THEN be ELSE [n \in DOMAIN be |-> Missing]

prefixed_clear(p) ==
    /\ prefixedStores.defined[p]
    /\ prefixedStores' =
          [prefixedStores EXCEPT !.be = PrefixedCleared(variant, @), !.last = p]
    /\ PrefixedFrame

\* beforeDisconnectCallback, clear(), this.storage = null
prefixed_disconnect(p) ==
    /\ prefixedStores.defined[p]
    /\ prefixedStores.ic[p] = "idle"
    /\ prefixedStores' =
          [prefixedStores EXCEPT !.be = PrefixedCleared(variant, @),
                                 !.defined[p] = FALSE, !.last = p]
    /\ PrefixedFrame

\* isConnected() of instance p: the sentinel is written under the prefixed
\* name, read and removed, one await apart; the window store and an
\* instance without storage answer at once
prefixed_isConnected(p) ==
    /\ prefixedStores.ic[p] = "idle"
    /\ prefixedStores' =
          IF variant = "window" \/ ~prefixedStores.defined[p]
          THEN [prefixedStores EXCEPT !.last = p]
          ELSE [prefixedStores EXCEPT
                   !.be = setItem(variant, @, <<>>, BackendName(variant, p, pingKey),
                                  Str(pingValue)),
                   !.ic[p] = "get",
                   !.last = p]
    /\ PrefixedFrame

prefixed_isConnected_step ==
    /\ \E p \in Prefixes :
         /\ prefixedStores.ic[p] # "idle"
         /\ prefixedStores' =
               IF prefixedStores.ic[p] = "get"
               THEN [prefixedStores EXCEPT !.ic[p] = "rm", !.last = p]
               ELSE [prefixedStores EXCEPT
                        !.be = removeItem(@, BackendName(variant, p, pingKey)),
                        !.ic[p] = "idle",
                        !.last = p]
    /\ UNCHANGED <<connector, store, backend, _state, bindings, mq, net, calls, posts,
                   frameCloses, supplied, done, held>>

----------------------------------------------------------------------------
(* Specifications.                                                         *)

Init ==
    /\ delegateClass = "AuthenticationDelegate"
    /\ variant \in Variants
    /\ storageDefined = TRUE
    /\ backend = EmptyBackend
    /\ _state = <<>>
    /\ identityResolver = NoBinding
    /\ resolverDelegate = FALSE
    /\ respondStrategy = NoBinding
    /\ respondFrame = NoBinding
    /\ mq = <<>>
    /\ net = {}
    /\ calls = 0
    /\ posts = 0
    /\ frameCloses = 0
    /\ supplied = [k \in AllowedQueryParamSet |-> Missing]
    /\ done = <<>>
    /\ options = "storage"
    /\ held = {}
    /\ NoAdapter
    /\ prefixedStores = TwoStores

\* any method of the delegate, called at any turn of the microtask queue
Next ==
    \/ calls < MaxCalls /\ \E args \in InitArgsPool : init(args)
    \/ calls < MaxCalls /\ freeze
    \/ calls < MaxCalls /\ \E states \in VerifyArgsPool : verifyStates(states)
    \/ calls < MaxCalls /\ close
    \/ calls < MaxCalls /\ handleUserRegistration
    \/ calls < MaxCalls /\ fromFrozenState
    \/ calls < MaxCalls /\ disconnect
    \/ calls < MaxCalls /\ connect
    \/ verifyStates_step
    \/ clean_step
    \/ close_step
    \/ handleUserRegistration_step
    \/ registerUser_response
    \/ isConnected_step
    \/ setStates_step
    \/ freeze_step

Spec == Init /\ [][Next]_vars

\* init alone, called again and again while earlier persistence is under way
InitOnlyPool ==
    { << <<"state", "abc">> >>, << <<"provider", "ethereum">> >> }

NextInit ==
    \/ calls < MaxInitCalls /\ \E args \in InitOnlyPool : init(args)
    \/ isConnected_step
    \/ setStates_step

SpecInit == Init /\ [][NextInit]_vars

\* what the store holds when the flow's page is opened
StoredPool ==
    { <<>>,
      << <<"project_identifier", "p1">>, <<"provider", "ethereum">>,
         <<"state", "abc">> >>,
      << <<"walletconnect", "session">>, <<"provider", "ethereum">>,
         <<"state", "abc">> >> }

RECURSIVE Stored(_, _, _)
Stored(vt, be, items) ==
    IF items = <<>> THEN be
    ELSE Stored(vt, setItem(vt, be, <<>>, items[1][1], Str(items[1][2])), Tail(items))

InitFlow ==
    /\ delegateClass \in Classes
    /\ variant \in Variants
    /\ storageDefined = TRUE
    /\ backend \in {Stored(variant, EmptyBackend, items) : items \in StoredPool}
    /\ _state = <<>>
    /\ identityResolver = NoBinding
    /\ resolverDelegate = FALSE
    /\ respondStrategy = NoBinding
    /\ respondFrame = NoBinding
    /\ mq = <<>>
    /\ net = {}
    /\ calls = 0
    /\ posts = 0
    /\ frameCloses = 0
    /\ supplied = [k \in AllowedQueryParamSet |-> Missing]
    /\ done = <<>>
    /\ options = "storage"
    /\ held = {}
    /\ NoAdapter
    /\ prefixedStores = TwoStores

\* one flow: captureData, then the resolver's calls
NextFlow ==
    \/ calls = 0 /\ \E search \in QueryPool : captureData(search)
    \/ resolverVerifies
    \/ resolverRegisters
    \/ resolverCloses
    \/ getConfigurationData_step
    \/ captureData_step
    \/ verifyProject_response
    \/ verifyStates_step
    \/ clean_step
    \/ close_step
    \/ handleUserRegistration_step
    \/ registerUser_response
    \/ isConnected_step
    \/ setStates_step

SpecFlow == InitFlow /\ [][NextFlow]_vars

\* the channels a page has created, before an adapter is given one
InitialChannels ==
    { [ch \in ChannelIds |->
          [kind |-> kinds[ch],
           providerPath |-> IF ch = "c1" THEN "undefined" ELSE path,
           isConnected |-> "false"]] :
        kinds \in [ChannelIds -> ChannelKinds], path \in {"undefined", "near"} }

InitAdapter ==
    /\ options = "storage"
    /\ delegateClass = "AuthenticationDelegate"
    /\ variant = "local"
    /\ storageDefined = TRUE
    /\ backend = EmptyBackend
    /\ _state = <<>>
    /\ identityResolver = NoBinding
    /\ resolverDelegate = FALSE
    /\ respondStrategy = NoBinding
    /\ respondFrame = NoBinding
    /\ mq = <<>>
    /\ net = {}
    /\ calls = 0
    /\ posts = 0
    /\ frameCloses = 0
    /\ supplied = [k \in AllowedQueryParamSet |-> Missing]
    /\ done = <<>>
    /\ held = {}
    /\ prefixedStores = TwoStores
    /\ adapterClass \in AdapterClasses
    /\ adapterState = "none"
    /\ _channel = NoBinding
    /\ channels \in InitialChannels
    /\ channelLog = <<>>
    /\ pending = {}
    /\ adapterDone = <<>>

\* an adapter and its channels, used by a page in any order
NextAdapter ==
    \/ calls < MaxAdapterCalls
          /\ \E ch \in ChannelIds \cup {NoBinding} : adapter_constructor(ch)
    \/ calls < MaxAdapterCalls
          /\ \E ch \in ChannelIds \cup {NoBinding} : adapter_setChannel(ch)
    \/ calls < MaxAdapterCalls /\ adapter_bindChannelDelegations
    \/ calls < MaxAdapterCalls
          /\ \E data \in RequestData, timeout \in RequestTimeouts :
                adapter_request(data, timeout)
    \/ calls < MaxAdapterCalls /\ adapter_connect
    \/ calls < MaxAdapterCalls /\ adapter_checkSession
    \/ calls < MaxAdapterCalls /\ adapter_checkConnection
    \/ calls < MaxAdapterCalls /\ adapter_on
    \/ calls < MaxAdapterCalls /\ adapter_isConnected
    \/ channel_settles
    \/ channel_drops

SpecAdapter == InitAdapter /\ [][NextAdapter]_vars

\* a store that has connected, used through its own methods
NextStore ==
    \/ calls < MaxStoreOps /\ \E key \in StoreOpKeys : \E value \in StoreOpValues :
            storage_setItem(key, value)
    \/ calls < MaxStoreOps /\ \E key \in StoreOpKeys : storage_removeItem(key)
    \/ calls < MaxStoreOps /\ storage_clear
    \/ calls < MaxStoreOps /\ disconnect
    \/ calls < MaxStoreOps /\ connect

SpecStore == Init /\ [][NextStore]_vars

\* a delegate as the page finds it: built with or without options, its store
\* connected or not, over what an earlier page has stored
InitRead ==
    /\ options \in {NoOptions, "storage"}
    /\ delegateClass = "AuthenticationDelegate"
    /\ variant \in Variants
    /\ storageDefined \in BOOLEAN
    /\ options = NoOptions => ~storageDefined
    /\ backend \in {Stored(variant, EmptyBackend, items) : items \in StoredPool}
    /\ _state = <<>>
    /\ identityResolver = NoBinding
    /\ resolverDelegate = FALSE
    /\ respondStrategy = NoBinding
    /\ respondFrame = NoBinding
    /\ mq = <<>>
    /\ net = {}
    /\ calls = 0
    /\ posts = 0
    /\ frameCloses = 0
    /\ supplied = [k \in AllowedQueryParamSet |-> Missing]
    /\ done = <<>>
    /\ held = {}
    /\ NoAdapter
    /\ prefixedStores = TwoStores

\* the reads of the delegate, called at any turn of the microtask queue
NextRead ==
    \/ calls < MaxReadCalls /\ \E states \in VerifyArgsPool : verifyStates(states)
    \/ calls < MaxReadCalls /\ \E key \in GetStateKeys : getState(key)
    \/ verifyStates_step
    \/ getState_step
    \/ isConnected_step

SpecRead == InitRead /\ [][NextRead]_vars

\* the two prefixed instances, used in any order
NextPrefix ==
    \/ calls < MaxPrefixOps /\ \E p \in Prefixes : \E key \in PrefixKeys :
            prefixed_setItem(p, key, Str("abc"))
    \/ calls < MaxPrefixOps /\ \E p \in Prefixes : \E key \in PrefixKeys :
            prefixed_removeItem(p, key)
    \/ calls < MaxPrefixOps /\ \E p \in Prefixes : prefixed_clear(p)
    \/ calls < MaxPrefixOps /\ \E p \in Prefixes : prefixed_disconnect(p)
    \/ calls < MaxPrefixOps /\ \E p \in Prefixes : prefixed_isConnected(p)
    \/ prefixed_isConnected_step

SpecPrefix == Init /\ [][NextPrefix]_vars

----------------------------------------------------------------------------
(* Properties.                                                             *)

\* the completed calls of one method
Records(op) == {done[j] : j \in {l \in DOMAIN done : done[l].op = op}}

\* C1: once the persistence started by any sequence of init calls on a
\* connected store has finished, the keys of _state are the keys supplied
\* across the calls, and each of them is retrievable from the store with the
\* value last supplied for it.
C1_InitPersistsEveryKey ==
    (storageDefined /\ mq = <<>>) =>
        /\ StateKeys(_state) = {k \in AllowedQueryParamSet : supplied[k] # Missing}
        /\ \A k \in StateKeys(_state) : getItem(variant, backend, k) = supplied[k]

\* C2: a fromFrozenState() that follows a resolved freeze() on the same
\* connected store yields a delegate with the _state and the bindings the
\* frozen delegate had.
C2_FrozenRoundTrip ==
    \A i, j \in DOMAIN done :
        ( /\ i < j
          /\ done[i].op = "freeze" /\ done[i].outcome = "resolved" /\ done[i].sd0
          /\ done[j].op = "fromFrozenState" /\ done[j].sd0 )
        => /\ done[j].outcome = "resolved"
           /\ done[j].st = done[i].st
           /\ done[j].bind = done[i].bind

\* the JSON text of what the backend holds under a key
StoredJSON(vt, raw) == IF vt = "window" THEN JSONstringify(raw) ELSE raw

C3_Excluded == {"code", "error", "error_code"}

\* C3: on a connected store whose entries for the keys of `states` stay as
\* they are during the call, verifyStates(states) returns true exactly when
\* every non-excluded key of `states` is stored and the JSON of its stored
\* value equals the JSON of the provided value, and false otherwise.
C3_VerifyStatesExact ==
    \A r \in Records("verifyStates") :
        ( /\ r.sd0
          /\ \A j \in DOMAIN r.arg : r.be0[r.arg[j][1]] = r.be[r.arg[j][1]] )
        => ( r.res = "true" <=>
               \A j \in DOMAIN r.arg :
                   r.arg[j][1] \notin C3_Excluded =>
                       /\ r.be[r.arg[j][1]] # Missing
                       /\ StoredJSON(variant, r.be[r.arg[j][1]])
                              = JSONstringify(r.arg[j][2]) )

C4_Excluded == {"code", "error", "error_code"}

C4_NonExcluded(entries) ==
    {entries[j] : j \in {l \in DOMAIN entries : entries[l][1] \notin C4_Excluded}}

\* arguments that differ from one another in the excluded keys they carry
C4_Args ==
    { StrEntries(a) : a \in VerifyArgsPool \cup
        { << <<"state", "abc">> >>,
          << <<"error", "denied">>, <<"state", "abc">>, <<"code", "other">> >>,
          << <<"state", "def">>, <<"code", "xyz">> >>,
          << <<"error_code", "1">>, <<"provider", "ethereum">>, <<"state", "abc">> >>,
          << <<"code", "xyz">> >> } }

\* the stores that agree with be outside the excluded keys
C4_Stores(vt, be) ==
    { [k \in StoreKeys |-> IF k \in C4_Excluded THEN f[k] ELSE be[k]] :
        f \in [C4_Excluded -> {Missing, serialize(vt, Str("xyz"))}] }

C4_Example == StrEntries(<< <<"state", "abc">>, <<"code", "xyz">> >>)

C5_MissingProjectIdentifierFails ==
    /\ \A r \in Records("handleUserRegistration") :
           (r.sd0 /\ r.be0["project_identifier"] = Missing)
               => r.outcome = "rejected" /\ r.res = "Project Identifier is not provided"
    /\ \A t \in net :
           (t.op = "handleUserRegistration" /\ t.sd0)
               => t.be0["project_identifier"] # Missing

C6_Args(p, s) == << <<"provider", p>>, <<"respond_strategy", s>> >>

C6_Unbound == <<NoBinding, FALSE, NoBinding, NoBinding>>

\* an init({provider, respond_strategy}) on a delegate without bindings,
\* called on a connected store while nothing else was under way
C6_Calls ==
    {r \in Records("init") :
        /\ r.bind0 = C6_Unbound /\ r.sd0 /\ r.alone
        /\ \E p \in {"ethereum", "unknown"}, s \in {"web", "none"} :
               r.arg = C6_Args(p, s) \/ r.arg = <<C6_Args(p, s)[2], C6_Args(p, s)[1]>>}

C6_Value(r, key) == StateGet(r.arg, key)

C7_CloseRemovesEveryKey ==
    \A r \in Records("close") :
        r.outcome = "resolved" =>
            /\ \A k \in AllowedQueryParamSet \cup {"walletconnect"} : r.be[k] = Missing
            /\ r.bind[4] # NoBinding => frameCloses >= 1

\* C8: when freeze() resolves on a connected store, every key that init had
\* added to _state before freeze() was called is present in the store.
C8_FreezeAfterPersistence ==
    \A r \in Records("freeze") :
        (r.outcome = "resolved" /\ r.sd0)
            => \A k \in StateKeys(r.st0) : r.be[k] # Missing

C10_Runs ==
    {[query |-> r.arg, log |-> r.log] : r \in Records("captureData")}
    \cup {[query |-> mq[j].data, log |-> mq[j].log] :
             j \in {l \in DOMAIN mq : mq[l].op = "captureData"}}
    \cup {[query |-> t.data, log |-> t.log] : t \in {u \in net : u.op = "captureData"}}

C10_At(log, step) ==
    IF \E j \in DOMAIN log : log[j] = step
    THEN CHOOSE j \in DOMAIN log : log[j] = step /\ \A l \in 1..(j - 1) : log[l] # step
    ELSE 0

C10_Precedes(log, a, b) == C10_At(log, a) > 0 /\ C10_At(log, a) < C10_At(log, b)

C10_Reached(log, step) == C10_At(log, step) > 0

\* C10 as it is stated: a captureData call writes the project identifier,
\* reaches init and reaches captureUri only after verifyProject has returned
\* true in that call.
C10_VerifiedBeforeInit ==
    \A c \in C10_Runs :
        /\ C10_Reached(c.log, "setItem") => C10_Precedes(c.log, "verified", "setItem")
        /\ C10_Reached(c.log, "init") => C10_Precedes(c.log, "verified", "init")
        /\ C10_Reached(c.log, "captureUri") => C10_Precedes(c.log, "verified", "captureUri")

\* C10, amended: a captureData call starts with the configuration; it writes
\* the project identifier only after verifyProject has returned true; when
\* the configuration holds a project_identifier, init is reached only after
\* that verification and that write, and otherwise init is reached with no
\* verification at all; captureUri is reached only after init.
C10_VerifiedWhenIdentified ==
    /\ \A c \in C10_Runs :
        /\ c.log # <<>> => c.log[1] = "configuration"
        /\ C10_Reached(c.log, "setItem") => C10_Precedes(c.log, "verified", "setItem")
        /\ (C10_Reached(c.log, "init") /\ "project_identifier" \in StateKeys(c.query))
               => /\ C10_Precedes(c.log, "verifyProject", "verified")
                  /\ C10_Precedes(c.log, "verified", "setItem")
                  /\ C10_Precedes(c.log, "setItem", "init")
        /\ (C10_Reached(c.log, "init") /\ "project_identifier" \notin StateKeys(c.query))
               => ~C10_Reached(c.log, "verifyProject")
        /\ C10_Reached(c.log, "captureUri") => C10_Precedes(c.log, "init", "captureUri")
    /\ \A r \in Records("captureData") :
        r.be0["project_identifier"] # r.be["project_identifier"]
            => C10_Reached(r.log, "verified")

\* a captureData call has gone through every step, and it has written a
\* project identifier that the store did not hold
C10_Witness ==
    \E r \in Records("captureData") :
        /\ r.log = <<"configuration", "verifyProject", "verified", "setItem",
                     "init", "captureUri">>
        /\ r.be0["project_identifier"] = Missing
        /\ r.be["project_identifier"] # Missing

\* the completed calls of one method of the adapter
AdapterRecords(methods) ==
    {adapterDone[j] : j \in {l \in DOMAIN adapterDone : adapterDone[l].method \in methods}}

\* the calls into channels that one call of the adapter has made
ChannelCallsOf(call) == {j \in DOMAIN channelLog : channelLog[j].call = call}

\* C13: on an adapter without a channel, request, connect, checkSession and
\* on fail with ChannelIsNotDefined and make no call into a channel, and the
\* constructor fails with ChannelIsNotDefined when it is given no channel.
C13_NoChannelIsRefused ==
    \A r \in AdapterRecords({"request", "connect", "checkSession", "on", "constructor"}) :
        r.channel = NoBinding =>
            /\ r.outcome \in {"rejected", "thrown"}
            /\ r.res = "ChannelIsNotDefined"
            /\ ChannelCallsOf(r.call) = {}

\* request was called after the channel had been unset, and was refused
C13_Witness ==
    /\ \E r \in AdapterRecords({"request"}) :
           r.channel = NoBinding /\ r.res = "ChannelIsNotDefined"
    /\ \E r \in AdapterRecords({"constructor"}) : r.res = "adapter"

\* C14: isConnected() returns, never throws, and its result is true exactly
\* when a channel is attached and that channel reports connected.
C14_ConnectedOnlyThroughChannel ==
    \A r \in AdapterRecords({"isConnected"}) :
        /\ r.outcome = "returned"
        /\ r.res = "true" <=> (r.channel # NoBinding /\ r.from = <<"true">>)

\* isConnected() has answered true on an attached channel that had connected
C14_Witness ==
    \E r \in AdapterRecords({"isConnected"}) :
        r.res = "true" /\ r.channel # NoBinding /\ r.from = <<"true">>

\* C15: whenever the adapter calls connect on a browser channel, the
\* channel's providerPath is the static providerPath of the adapter's class.
C15_ProviderPathBeforeConnect ==
    \A j \in DOMAIN channelLog :
        (channelLog[j].method = "connect"
            /\ channelLog[j].kind = "BrowserProviderChannel")
        => channelLog[j].providerPath = StaticProviderPath(adapterClass)

\* C19: a request that went to the channel made exactly one call into it,
\* with the caller's data and timeout, and it settled as the channel did:
\* resolved with the channel's result or rejected with the channel's error.
C19_RequestIsForwarded ==
    \A r \in AdapterRecords({"request"}) :
        r.channel # NoBinding =>
            /\ Cardinality(ChannelCallsOf(r.call)) = 1
            /\ \A j \in ChannelCallsOf(r.call) :
                   /\ channelLog[j].method = "request"
                   /\ channelLog[j].channel = r.channel
                   /\ channelLog[j].arg = r.arg
            /\ <<r.outcome, r.res>> = r.from

\* a request with a timeout was rejected by the channel's timeout error
C19_Witness ==
    \E r \in AdapterRecords({"request"}) :
        /\ r.arg[2] = "3000"
        /\ r.outcome = "rejected" /\ r.res = "RequestTimeout"
        /\ r.from = <<"rejected", "RequestTimeout">>

\* C20: every call of the adapter that needs the channel, checkConnection
\* included, fails with ChannelIsNotDefined when the channel is undefined.
C20_EveryCallChecksChannel ==
    \A r \in AdapterRecords({"request", "connect", "checkSession", "on",
                             "checkConnection"}) :
        r.channel = NoBinding =>
            /\ r.outcome \in {"rejected", "thrown"}
            /\ r.res = "ChannelIsNotDefined"

\* the project verification of a captureData call did not succeed
C11_VerificationFailed(r) ==
    \E j \in DOMAIN r.log : r.log[j] \in {"unverified", "NetworkError"}

\* C11: a captureData whose project verification returned false or failed
\* does not reject into its caller, and neither does a handleUserRegistration
\* whose registration request failed: the failure is reported, not thrown.
C11_FailureIsReportedNotThrown ==
    /\ \A r \in Records("captureData") :
           C11_VerificationFailed(r) => r.outcome # "rejected"
    /\ \A r \in Records("handleUserRegistration") :
           r.res = "NetworkError" => r.outcome # "rejected"

\* the flow has failed for good: captureData has ended on a project that was
\* not verified, or the state verification or the registration failed and
\* close() has been run
C12_FailedAndEnded ==
    /\ mq = <<>>
    /\ net = {}
    /\ \/ \E r \in Records("captureData") : C11_VerificationFailed(r)
       \/ /\ \E r \in Records("close") : r.outcome = "resolved"
          /\ \/ \E r \in Records("verifyStates") : r.res = "false"
             \/ \E r \in Records("handleUserRegistration") : r.outcome = "rejected"

\* C12: once a flow has ended in a terminal failure the connected store holds
\* no key of the flow: no query parameter, no other key persisted by init and
\* no frozen_auth_delegate entry.
C12_FailureLeavesNoState ==
    (C12_FailedAndEnded /\ storageDefined) =>
        \A k \in AllowedQueryParamSet \cup {frozenStateKey} : backend[k] = Missing

\* C16: on every store variant, after any sequence of setItem, removeItem
\* and clear, getItem(k) is null and hasKey(k) is false for a key that is not
\* held (never set, or removed or cleared since), and hasKey(k) is true
\* exactly for the keys that are held.
C16_StoreReadsFollowWrites ==
    \A k \in StoreOpKeys :
        /\ k \notin held =>
               /\ getItem(variant, backend, k) = Null
               /\ ~hasKey(variant, backend, k)
        /\ hasKey(variant, backend, k) <=> k \in held

\* the delegate's store was connected when the call was made
ReadConnected(r) == ConstructorStorage(options) # NoBinding /\ r.sd0

\* C17: verifyStates never ends by an exception, and it resolves to false
\* when the delegate's store is not connected (never set, or without a
\* storage) and when a non-excluded key is absent or its value differs.
C17_VerifyStatesNeverThrows ==
    \A r \in Records("verifyStates") :
        /\ r.outcome = "resolved"
        /\ r.res \in {"true", "false"}
        /\ ~ReadConnected(r) => r.res = "false"
        /\ (\E j \in DOMAIN r.arg :
               /\ r.arg[j][1] \notin verificationExcludedStates
               /\ \/ r.be[r.arg[j][1]] = Missing
                  \/ StoredJSON(variant, r.be[r.arg[j][1]]) # JSONstringify(r.arg[j][2]))
           => r.res = "false"

\* C18: getState(key) is rejected with StorageIsNotConnected, having read
\* nothing, when the delegate's store is not connected, and resolves to the
\* value stored under key when it is.
C18_GetStateNeedsConnection ==
    \A r \in Records("getState") :
        IF ReadConnected(r)
        THEN /\ r.outcome = "resolved"
             /\ r.rd = getItem(variant, r.be, r.arg)
        ELSE /\ r.outcome = "rejected"
             /\ r.res = "StorageIsNotConnected"
             /\ r.log = <<>>

\* the calls of freeze() made so far, ended or under way
C21_FreezeCalls ==
    {r.call : r \in Records("freeze")}
        \cup {mq[j].call : j \in {l \in DOMAIN mq : mq[l].op = "freeze"}}

\* C21: the frozen_auth_delegate entry is written by freeze() alone, and
\* once the only freeze() made so far has resolved on a connected store, the
\* entry holds the _state map as it was when freeze() was called, whatever
\* init calls have followed, on every store variant.
C21_FrozenEntryIsSnapshot ==
    /\ backend[frozenStateKey] # Missing => C21_FreezeCalls # {}
    /\ \A r \in Records("freeze") :
           ( /\ r.outcome = "resolved"
             /\ r.sd0 /\ storageDefined
             /\ C21_FreezeCalls = {r.call} )
           => Deref(getItem(variant, backend, frozenStateKey), _state)
                  = ObjValue(r.st0)

\* C22: a clear() on a store instance leaves none of the keys that were set
\* on it readable through that instance, on every store variant, and after
\* a disconnect() the instance's isConnected() returns false.
C22_ClearAndDisconnect ==
    [][ /\ storage_clear =>
              \A k \in held : getItem(variant, backend', k) \in {Null, Undefined}
        /\ disconnect =>
              /\ IsConnectedPc(variant, storageDefined') = "go"
              /\ ~IsConnectedOk(variant, storageDefined') ]_vars

\* the step is a run of init: a call of init, or the this.init(query) of
\* captureData
C23_InitRan ==
    /\ Len(done') = Len(done) + 1
    /\ LET r == done'[Len(done')]
       IN /\ \/ r.op = "init"
             \/ r.op = "captureData" /\ \E j \in DOMAIN r.log : r.log[j] = "init"
          /\ StateKeys(_state') \ StateKeys(_state) \subseteq StateKeys(r.arg)

\* C23: no step of the delegate removes a key from _state, and a step that
\* adds keys to _state is a run of init that was given those keys.
C23_StateIsAppendOnly ==
    [][ /\ StateKeys(_state) \subseteq StateKeys(_state')
        /\ StateKeys(_state') # StateKeys(_state) => C23_InitRan ]_vars

\* close() has resolved on a delegate whose init had recorded state, and the
\* state is still there
C23_Witness ==
    \E r \in Records("close") :
        /\ r.outcome = "resolved"
        /\ r.st0 # <<>>
        /\ r.st = r.st0
        /\ _state = r.st0

\* C24: on a connected store every isConnected() returns true, whatever
\* other connectivity checks are under way, and no sentinel key is left in the
\* store once every check has finished.
C24_OverlappingChecksAgree ==
    storageDefined =>
        /\ \A j \in DOMAIN mq :
               (mq[j].pc = "go" /\ mq[j].sd0) => mq[j].ok
        /\ (mq = <<>> /\ net = {}) => backend[pingKey] = Missing

\* C25: after any sequence of init calls the bindings agree with _state:
\* identityResolver is the resolver mapped from _state.provider,
\* respondStrategy is _state.respond_strategy and respondFrame is the
\* communicator mapped from it.
C25_BindingsFollowState ==
    /\ "provider" \in StateKeys(_state) =>
           identityResolver = identityResolverMap(StateGet(_state, "provider"))
    /\ "respond_strategy" \in StateKeys(_state) =>
           /\ respondStrategy = StateGet(_state, "respond_strategy")
           /\ respondFrame = respondStrategyMap(StateGet(_state, "respond_strategy"))

\* C26: a step of the store instance with prefix p changes only backend
\* entries named p__<key>, and an instance reads a value under a key only if
\* it has set that key itself: instances with different prefixes neither
\* destroy nor observe each other's entries.
C26_PrefixIsolation ==
    [][ /\ \A n \in PrefixNames :
               prefixedStores'.be[n] # prefixedStores.be[n]
                   => (Len(n) = 2 /\ n[1] = prefixedStores'.last)
        /\ \A q \in Prefixes : \A k \in PrefixKeys :
               getItem(variant, prefixedStores'.be, BackendName(variant, q, k))
                       \notin {Null, Undefined}
                   => k \in prefixedStores'.written[q] ]_vars

====
